---- MODULE Spec2Model ----
(***************************************************************************)
(* Model of EcotouchBridge (pywaterkotte_ha/ecotouch.py): the session      *)
(* (login, cookie, stored credentials), the chunked readTags transport     *)
(* with its re-login path, read_values, and write_values / _write_tags.    *)
(*                                                                         *)
(* Every coroutine is cut at its awaits: one action per piece of code      *)
(* between two network events.  The device is the environment: each        *)
(* response is a nondeterministic choice among the bodies the parser       *)
(* distinguishes.                                                          *)
(***************************************************************************)
EXTENDS Integers, Sequences, FiniteSets, TLC

\* ------------------------------------------------------------------ bounds
\* chunk sizes requested at construction are 1..MaxChunk
MaxChunk == 2
\* the device grants at most MaxCookies sessions (successful logins)
MaxCookies == 2
\* read_values is called with at most MaxRead descriptors
MaxRead == 2
\* read_values is called with at most MaxReadWide descriptors while the
\* device keeps the session open
MaxReadWide == 3
\* write_values is called with at most MaxPairs (descriptor, value) pairs
MaxPairs == 2
\* the event loop runs NumTasks read calls concurrently
NumTasks == 2
\* most descriptors with a special codec in one read_values call
MaxReadCodec == 2
\* the depth of nested calls at which the interpreter raises RecursionError,
\* scaled down (sys.getrecursionlimit() is 1000)
MaxDepth == 6
\* iterations of a chunk loop that does not end which the model follows
MaxLoops == 3

\* ------------------------------------------------------- program constants
\* __init__: self.tagsPerRequest = min(tagsPerRequest, 75)
ProtocolMaxTags == 75
\* __init__(self, host, tagsPerRequest: int = 10)
DefaultTagsPerRequest == 10

\* ----------------------------------------------------------- Python values
Min(a, b) == IF a < b THEN a ELSE b
Max(a, b) == IF a > b THEN a ELSE b

\* tags[:k] of a Python list, k any integer
SliceTo(s, k) ==
    IF k >= 0 THEN SubSeq(s, 1, Min(k, Len(s)))
    ELSE SubSeq(s, 1, Max(Len(s) + k, 0))

\* tags[k:] with an off-by-one start: the first tag of the rest is lost
SliceFromSkipsOne(s, k) == SubSeq(s, Min(k, Len(s)) + 2, Len(s))

\* tags[k:] of a Python list, k any integer
SliceFrom(s, k) ==
    IF k >= 0 THEN SubSeq(s, Min(k, Len(s)) + 1, Len(s))
    ELSE SubSeq(s, Max(Len(s) + k, 0) + 1, Len(s))

\* the elements of a sequence
Range(s) == {s[i] : i \in 1..Len(s)}

\* all orders in which a finite set can be listed (list(set(...)))
Orders(S) == {s \in [1..Cardinality(S) -> S] : Range(s) = S}

\* a dict is a function; None stands beside it as a dict-or-None value
EmptyDict == [x \in {} |-> 0]
NoneDict == [isNone |-> TRUE, d |-> EmptyDict]
SomeDict(d) == [isNone |-> FALSE, d |-> d]

\* d[k] = v on a dict
DictSet(d, k, v) == [x \in (DOMAIN d) \cup {k} |-> IF x = k THEN v ELSE d[x]]

\* a raw register value: the decimal string the device sent, or None
RawNone == [isNone |-> TRUE, n |-> 0]
RawStr(n) == [isNone |-> FALSE, n |-> n]

\* a domain value: None, or a float with one decimal digit
ValNone == [isNone |-> TRUE, whole |-> 0, tenth |-> 0]
FloatVal(w, t) == [isNone |-> FALSE, whole |-> w, tenth |-> t]

\* the decimal digits of a natural number, as characters
Digit(n) ==
    CASE n = 0 -> "0" [] n = 1 -> "1" [] n = 2 -> "2" [] n = 3 -> "3"
      [] n = 4 -> "4" [] n = 5 -> "5" [] n = 6 -> "6" [] n = 7 -> "7"
      [] n = 8 -> "8" [] OTHER -> "9"

RECURSIVE NatStr(_)
NatStr(n) == IF n < 10 THEN <<Digit(n)>> ELSE NatStr(n \div 10) \o <<Digit(n % 10)>>

\* str(v) of a domain value: "None", or the shortest repr of the float; a
\* negative float whole + tenth / 10 is written as minus its absolute value
PyStr(v) ==
    IF v.isNone THEN <<"N", "o", "n", "e">>
    ELSE IF v.whole >= 0
         THEN NatStr(v.whole) \o <<".">> \o <<Digit(v.tenth)>>
         ELSE IF v.tenth = 0
              THEN <<"-">> \o NatStr(-v.whole) \o <<".", "0">>
              ELSE <<"-">> \o NatStr(-v.whole - 1) \o <<".">> \o <<Digit(10 - v.tenth)>>

\* --------------------------------------------------- property descriptors
\* the part of the EcotouchTag catalogue the model works on, in the order in
\* which a caller lists the descriptors of a read
Catalogue ==
    <<"TEMPERATURE_OUTSIDE", "TEMPERATURE_ROOM_TARGET", "HOLIDAY_ENABLED", "ROOM_INFLUENCE">>
TagNames == {Catalogue[i] : i \in 1..Len(Catalogue)}

\* the descriptors of the catalogue with a codec of their own that the model
\* works on: two registers, one bit of a shared register, a translated bit list
CodecCatalogue ==
    <<"VERSION_CONTROLLER", "STATE_SOURCEPUMP", "STATE_HEATINGPUMP", "ALARM_BITS">>

\* EcotouchTag.<name>.tags
TagsOf(name) ==
    CASE name = "TEMPERATURE_OUTSIDE" -> <<"A1">>
      [] name = "TEMPERATURE_ROOM_TARGET" -> <<"A100">>
      [] name = "ROOM_INFLUENCE" -> <<"A101">>
      [] name = "HOLIDAY_ENABLED" -> <<"D420">>
      [] name = "VERSION_CONTROLLER" -> <<"I1", "I2">>
      [] name = "STATE_SOURCEPUMP" -> <<"I51">>
      [] name = "STATE_HEATINGPUMP" -> <<"I51">>
      [] name = "ALARM_BITS" -> <<"I52">>

\* EcotouchTag.<name>.bit, -1 for None
BitOf(name) ==
    CASE name = "STATE_SOURCEPUMP" -> 0
      [] name = "STATE_HEATINGPUMP" -> 1
      [] OTHER -> -1

\* EcotouchTag.<name>.bits, empty for None
BitsOf(name) ==
    IF name = "ALARM_BITS" THEN <<0, 1, 2, 3, 4, 5, 6, 7, 8>> ELSE <<>>

\* EcotouchTag.<name>.translate
TranslateOf(name) == name = "ALARM_BITS"

\* the characters of a label of the language table
Label(k) == <<"L">> \o <<Digit(k)>>

\* self.lang_map: the registers with a label table, and their labels by
\* position
LangMap == [t \in {"I52"} |-> [k \in 1..9 |-> Label(k - 1)]]

\* the writeable flag is not looked at: every descriptor is written
WriteableIgnored(name) == TRUE

\* EcotouchTag.<name>.writeable (TagData's default is False)
Writeable(name) ==
    CASE name = "TEMPERATURE_OUTSIDE" -> FALSE
      [] name = "TEMPERATURE_ROOM_TARGET" -> TRUE
      [] name = "ROOM_INFLUENCE" -> TRUE
      [] name = "HOLIDAY_ENABLED" -> TRUE
      [] name = "VERSION_CONTROLLER" -> FALSE
      [] name = "STATE_SOURCEPUMP" -> FALSE
      [] name = "STATE_HEATINGPUMP" -> FALSE
      [] name = "ALARM_BITS" -> FALSE

\* default numeric decode: first raw value as integer, divided by 10; the
\* float is whole + tenth / 10 with whole the floor (-15 is -2 + 5/10)
DecodeDefault(raws) ==
    IF raws[1].isNone THEN ValNone
    ELSE FloatVal(raws[1].n \div 10, raws[1].n % 10)

\* a boolean domain value
BoolVal(b) == [isNone |-> FALSE, bool |-> b]

\* the descriptors of D registers carry the boolean codec
IsBoolean(name) == name = "HOLIDAY_ENABLED"

\* a string domain value, as its characters
StrVal(chars) == [isNone |-> FALSE, str |-> chars]

\* a list of booleans as domain value
BitsVal(bools) == [isNone |-> FALSE, bits |-> bools]

\* VERSION_CONTROLLER carries the firmware version codec
IsVersion(name) == name = "VERSION_CONTROLLER"

\* bit b of the non-negative integer n is set
BitSet(n, b) == (n \div (2 ^ b)) % 2 = 1

\* boolean decode: raw "0" and "1" are False and True, an absent raw value is
\* None; TRUE when the raw value is none of these and the decode raises.
\* The version decode raises when one of its two raw values is absent
DecodeFails(name, raws) ==
    \/ IsBoolean(name) /\ ~raws[1].isNone /\ raws[1].n \notin {0, 1}
    \/ IsVersion(name) /\ \E k \in 1..Len(raws) : raws[k].isNone

\* a_eco_tag.decode_function(a_eco_tag, raws) when it does not raise: the
\* boolean, version ("{major}.{minor}"), single bit, bit list and default
\* numeric codecs
Decode(name, raws) ==
    CASE IsBoolean(name) ->
             IF raws[1].isNone THEN ValNone ELSE BoolVal(raws[1].n = 1)
      [] IsVersion(name) ->
             StrVal(NatStr(raws[1].n) \o <<".">> \o NatStr(raws[2].n))
      [] BitOf(name) >= 0 ->
             IF raws[1].isNone THEN ValNone
             ELSE BoolVal(BitSet(raws[1].n, BitOf(name)))
      [] BitsOf(name) # <<>> ->
             IF raws[1].isNone THEN ValNone
             ELSE BitsVal([k \in 1..Len(BitsOf(name)) |->
                              BitSet(raws[1].n, BitsOf(name)[k])])
      [] OTHER -> DecodeDefault(raws)

\* default numeric encode: the float times 10, rounded, as decimal string
EncodeDefault(v) == RawStr(v.whole * 10 + v.tenth)

\* ------------------------------------------------------------- the device
\* statuses the device answers a login with; "" is a body with no status line
LoginStatuses == {"S_OK", "E_TOO_MANY_USERS", "E_PASS_DONT_MATCH", ""}

\* parsed_response.startswith("E_TOO_MANY_USERS")
StartsWithTooManyUsers(status) ==
    /\ Len(status) >= Len("E_TOO_MANY_USERS")
    /\ SubSeq(status, 1, Len("E_TOO_MANY_USERS")) = "E_TOO_MANY_USERS"

\* raw values the device holds in a register, and echoes on a write: a D
\* register holds 1 or a malformed boolean, the others a negative number
DevValues(tag) ==
    CASE tag = "D420" -> {1, -15}
      [] tag = "I1" -> {1}
      [] tag = "I2" -> {2}
      [] tag = "I51" -> {1, 2}
      [] tag = "I52" -> {0, 5}
      [] OTHER -> {-15}
EchoValues == {215, 216}

\* what a response body holds for one requested register
BlockOk(n) == [kind |-> "full", status |-> "S_OK", n |-> n]
BlockErr == [kind |-> "full", status |-> "E_WRITE", n |-> 215]
BlockInactive == [kind |-> "inactive", status |-> "E_INACTIVETAG", n |-> 0]
BlockMissing == [kind |-> "missing", status |-> "", n |-> 0]
Blocks(values) == {BlockOk(n) : n \in values} \cup {BlockErr, BlockInactive, BlockMissing}

\* a register answered with its value and a status other than S_OK
BlockDenied(n) == [kind |-> "full", status |-> "E_ACCESS", n |-> n]

\* what a response to readTags can hold for the register tag
ReadBlocks(tag) ==
    {BlockOk(n) : n \in DevValues(tag)} \cup {BlockInactive, BlockMissing}
        \cup (IF tag = "I2" THEN {BlockDenied(n) : n \in DevValues(tag)} ELSE {})

\* the bodies the device can answer a readTags request for tags with
ReadBodies(tags) ==
    {body \in [Range(tags) -> UNION {ReadBlocks(t) : t \in Range(tags)}] :
        \A t \in Range(tags) : body[t] \in ReadBlocks(t)}

\* the bodies the device can answer a writeTags request for tags with
WriteBodies(tags) == [Range(tags) -> Blocks(EchoValues)]

\* what a failed top-level login() raises besides the status exceptions
LoginFailures == {"ClientError", "AssertionError"}

\* what a failed logout() raises
LogoutFailures == {"ClientError"}

\* credentials a caller logs in with
Credentials == {<<"waterkotte", "waterkotte">>, <<"admin", "secret">>}

\* values a caller writes
WriteValuesDomain == {FloatVal(21, 5)}

\* ------------------------------------------------------------------ state
VARIABLES
    tagsPerRequest,  \* self.tagsPerRequest
    username,        \* self.username
    password,        \* self.password
    auth_cookies,    \* self.auth_cookies: 0 is None, n > 0 the n-th session cookie
    issued,          \* device side: number of sessions granted so far
    op,              \* the top-level call in progress: idle, login, logout, read, write
    call,            \* the top-level call in progress or finished and not yet released
    rtags,           \* read_values: its argument tags (descriptor names)
    e_tags,          \* read_values: its local e_tags
    e_values,        \* read_values, write_values: the local e_values
    e_status,        \* read_values, write_values: the local e_status
    stack,           \* the _read_tags invocations in progress, innermost last
    wpairs,          \* write_values: its argument kv_pairs
    wi,              \* write_values: position of the pair the loop is at
    to_write,        \* write_values: the to_write dict, in insertion order
    wresult,         \* write_values: the result dict
    wpc,             \* write_values / _write_tags: loop, send, resp, login
    net,             \* the requests and responses of the call, in order
    outcome,         \* what the last finished call returned or raised
    tasks,           \* the read calls the event loop runs concurrently, if any
    earlier,         \* history: the registers the earlier read calls asked for
    requestedSize    \* history: the tagsPerRequest argument __init__ was called with

vars == <<tagsPerRequest, username, password, auth_cookies, issued, op, call, rtags,
          e_tags, e_values, e_status, stack, wpairs, wi, to_write, wresult, wpc,
          net, outcome, tasks, earlier, requestedSize>>

\* what no step of a call changes
apart == <<tagsPerRequest, tasks, earlier, requestedSize>>
session == <<username, password, auth_cookies>>
readState == <<rtags, e_tags, stack>>
unpacked == <<e_values, e_status>>
writeState == <<wpairs, wi, to_write, wresult, wpc>>

\* ------------------------------------------------------------ the net log
ReqRead(tags) ==
    [ev |-> "readTags", tags |-> tags, values |-> <<>>, cookie |-> auth_cookies,
     status |-> "", user |-> "", pass |-> ""]
ReqWrite(tags, values) ==
    [ev |-> "writeTags", tags |-> tags, values |-> values, cookie |-> auth_cookies,
     status |-> "", user |-> "", pass |-> ""]
ReqLogin(u, p) ==
    [ev |-> "login", tags |-> <<>>, values |-> <<>>, cookie |-> 0,
     status |-> "", user |-> u, pass |-> p]
Resp(status) ==
    [ev |-> "resp", tags |-> <<>>, values |-> <<>>, cookie |-> 0,
     status |-> status, user |-> "", pass |-> ""]
\* a response to readTags that is no sentinel: what it holds for each
\* requested register
RespBody(body) ==
    [ev |-> "resp", tags |-> <<>>, values |-> <<>>, cookie |-> 0,
     status |-> "BODY", user |-> "", pass |-> "", body |-> body]
LoginResp(status) ==
    [ev |-> "loginResp", tags |-> <<>>, values |-> <<>>, cookie |-> 0,
     status |-> status, user |-> "", pass |-> ""]
ReqLogout ==
    [ev |-> "logout", tags |-> <<>>, values |-> <<>>, cookie |-> 0,
     status |-> "", user |-> "", pass |-> ""]
LogoutResp ==
    [ev |-> "logoutResp", tags |-> <<>>, values |-> <<>>, cookie |-> 0,
     status |-> "", user |-> "", pass |-> ""]
\* the request or the reading of the body failed in transport
TransportError ==
    [ev |-> "error", tags |-> <<>>, values |-> <<>>, cookie |-> 0,
     status |-> "", user |-> "", pass |-> ""]

\* the positions of the log holding a request or response of kind ev
Events(ev) == {i \in 1..Len(net) : net[i].ev = ev}

\* ---------------------------------------------------------------- outcomes
NoOutcome == [kind |-> "none", exc |-> "", result |-> EmptyDict]
Return(result) == [kind |-> "return", exc |-> "", result |-> result]
Raise(exc) == [kind |-> "raise", exc |-> exc, result |-> EmptyDict]

\* ---------------------------------------------------------------- __init__
\* __init__ with the clamp left out
BridgeInitUnclamped(requested) ==
    /\ requestedSize = requested
    /\ tagsPerRequest = requested
    /\ username = "waterkotte"
    /\ password = "waterkotte"
    /\ auth_cookies = 0

\* EcotouchBridge.__init__(host, tagsPerRequest)
BridgeInit(requested) ==
    /\ requestedSize = requested
    /\ tagsPerRequest = Min(requested, ProtocolMaxTags)
    /\ username = "waterkotte"
    /\ password = "waterkotte"
    /\ auth_cookies = 0

\* EcotouchBridge(host): the chunk size argument takes its default
BridgeInitDefault == BridgeInit(DefaultTagsPerRequest)

\* no call was made yet
NoCall ==
    /\ issued = 0
    /\ op = "idle"
    /\ call = "none"
    /\ rtags = <<>>
    /\ e_tags = <<>>
    /\ e_values = NoneDict
    /\ e_status = NoneDict
    /\ stack = <<>>
    /\ wpairs = <<>>
    /\ wi = 0
    /\ to_write = <<>>
    /\ wresult = EmptyDict
    /\ wpc = "loop"
    /\ net = <<>>
    /\ outcome = NoOutcome
    /\ earlier = {}

\* a fresh bridge with no call in progress
InitBridge ==
    /\ \E requested \in 1..MaxChunk : BridgeInit(requested)
    /\ NoCall

\* the chunk sizes a bridge is constructed with, when all are looked at:
\* negative, zero, small, the protocol maximum and above it
ChunkSizes == {-1, 0, 1, ProtocolMaxTags, ProtocolMaxTags + 1}

\* a fresh bridge of any chunk size, or of the default one
InitAnyChunk ==
    /\ \/ \E requested \in ChunkSizes : BridgeInit(requested)
       \/ BridgeInitDefault
    /\ NoCall
    /\ tasks = <<>>

Init ==
    /\ InitBridge
    /\ tasks = <<>>

\* ------------------------------------------------------------------- login
\* login() that sends the constructor's default credentials whatever it is given
login_request_default(u, p, log) ==
    /\ username' = u
    /\ password' = p
    /\ net' = Append(log, ReqLogin("waterkotte", "waterkotte"))

\* login(), up to the await of the GET: stores the credentials, sends the request
login_request(u, p, log) ==
    /\ username' = u
    /\ password' = p
    /\ net' = Append(log, ReqLogin(u, p))

\* login() without the capacity case: every non-OK status is a StatusException
login_raises_generic(status) ==
    IF status = "" THEN "InvalidResponseException"
    ELSE IF status # "S_OK" THEN "StatusException" ELSE ""

\* what login() raises for a parsed status, "" when it returns normally
login_raises(status) ==
    IF status = "" THEN "InvalidResponseException"
    ELSE IF status # "S_OK"
         THEN IF StartsWithTooManyUsers(status) THEN "TooManyUsersException"
              ELSE "StatusException"
         ELSE ""

\* except StatusException: TooManyUsersException is a subclass of it
IsStatusException(exc) == exc \in {"StatusException", "TooManyUsersException"}

\* a caller calls login(u, p)
login(u, p) ==
    /\ op = "idle"
    /\ call = "none"
    /\ op' = "login"
    /\ call' = "login"
    /\ login_request(u, p, <<>>)
    /\ outcome' = NoOutcome
    /\ rtags' = <<>>
    /\ e_tags' = <<>>
    /\ e_values' = NoneDict
    /\ e_status' = NoneDict
    /\ wpairs' = <<>>
    /\ UNCHANGED <<apart, auth_cookies, issued, stack, wi, to_write, wresult, wpc>>

\* the device answers the login of a top-level login() call
login_response(status) ==
    /\ op = "login"
    /\ status = "S_OK" => issued < MaxCookies
    /\ net' = Append(net, LoginResp(status))
    /\ IF login_raises(status) = ""
       THEN /\ auth_cookies' = issued + 1
            /\ issued' = issued + 1
            /\ outcome' = Return(EmptyDict)
       ELSE /\ UNCHANGED <<auth_cookies, issued>>
            /\ outcome' = Raise(login_raises(status))
    /\ op' = "idle"
    /\ UNCHANGED <<apart, username, password, call, readState, unpacked, writeState>>

\* ------------------------------------------------------------------ logout
\* a caller calls logout(): the GET of /cgi/logout is sent
logout ==
    /\ op = "idle"
    /\ call = "none"
    /\ op' = "logout"
    /\ call' = "logout"
    /\ net' = <<ReqLogout>>
    /\ outcome' = NoOutcome
    /\ rtags' = <<>>
    /\ e_tags' = <<>>
    /\ e_values' = NoneDict
    /\ e_status' = NoneDict
    /\ wpairs' = <<>>
    /\ UNCHANGED <<apart, session, issued, stack, wi, to_write, wresult, wpc>>

\* the body of the logout response was read: self.auth_cookies = None
logout_response ==
    /\ op = "logout"
    /\ net' = Append(net, LogoutResp)
    /\ auth_cookies' = 0
    /\ outcome' = Return(EmptyDict)
    /\ op' = "idle"
    /\ UNCHANGED <<apart, username, password, issued, call, readState, unpacked,
                   writeState>>

\* session.get or response.text() raises: the exception leaves logout()
\* before the assignment to self.auth_cookies
logout_fails(exc) ==
    /\ op = "logout"
    /\ net' = Append(net, TransportError)
    /\ outcome' = Raise(exc)
    /\ op' = "idle"
    /\ UNCHANGED <<apart, session, issued, call, readState, unpacked, writeState>>

\* ------------------------------------------------------------- _read_tags
\* what _read_tags returns: (results, results_status), (None, None), or None
RetPair(results, results_status) ==
    [shape |-> "pair", results |-> results, results_status |-> results_status]
RetNonePair == RetPair(NoneDict, NoneDict)
RetNone == [shape |-> "none", results |-> NoneDict, results_status |-> NoneDict]

\* entry of _read_tags with accumulators that are never fresh: a None
\* accumulator becomes a dict that holds register A1 from an earlier call
FrameKeepsEarlier(tags, results, results_status) ==
    [tags |-> tags,
     results |-> IF results.isNone THEN SomeDict([t \in {"A1"} |-> RawStr(-15)])
                 ELSE results,
     results_status |-> IF results_status.isNone
                        THEN SomeDict([t \in {"A1"} |-> "S_OK"])
                        ELSE results_status,
     pc |-> "while"]

\* entry of _read_tags with the accumulators passed in dropped: every
\* invocation starts from fresh dicts
FrameForgets(tags, results, results_status) ==
    [tags |-> tags,
     results |-> SomeDict(EmptyDict),
     results_status |-> SomeDict(EmptyDict),
     pc |-> "while"]

\* entry of _read_tags: a None accumulator becomes a fresh dict
Frame(tags, results, results_status) ==
    [tags |-> tags,
     results |-> IF results.isNone THEN SomeDict(EmptyDict) ELSE results,
     results_status |-> IF results_status.isNone THEN SomeDict(EmptyDict)
                        ELSE results_status,
     pc |-> "while"]

Top == stack[Len(stack)]
Below == SubSeq(stack, 1, Len(stack) - 1)
SetTop(f) == Append(Below, f)

\* the for loop over the response: the value each requested tag gets
ParsedValue(block) == IF block.kind = "full" THEN RawStr(block.n) ELSE RawNone

\* the for loop with a missing block recorded like an inactive tag
ParsedStatusNoNotFound(block) ==
    CASE block.kind = "full" -> block.status
      [] OTHER -> "E_INACTIVE"

\* the for loop over the response: the status each requested tag gets
ParsedStatus(block) ==
    CASE block.kind = "full" -> block.status
      [] block.kind = "inactive" -> "E_INACTIVE"
      [] OTHER -> "E_NOTFOUND"

\* results after the for loop over the response
ParseValues(tags, body, results) ==
    [t \in (DOMAIN results) \cup Range(tags) |->
        IF t \in Range(tags) THEN ParsedValue(body[t]) ELSE results[t]]

\* results_status after the for loop over the response
ParseStatus(tags, body, results_status) ==
    [t \in (DOMAIN results_status) \cup Range(tags) |->
        IF t \in Range(tags) THEN ParsedStatus(body[t]) ELSE results_status[t]]

\* ------------------------------------------------------------- read_values
\* e_tags = list(set(...)): the registers of the descriptors, once each
FlatTags(tags) == UNION {Range(TagsOf(tags[i])) : i \in 1..Len(tags)}

\* [etag for tag in tags for etag in tag.tags]
RECURSIVE AllTags(_)
AllTags(tags) == IF tags = <<>> THEN <<>> ELSE TagsOf(Head(tags)) \o AllTags(Tail(tags))

\* e_tags without the set(): a register two descriptors share is listed twice
EtagListsKeepDuplicates(tags) == {AllTags(tags)}

\* the lists e_tags can be: the order list(set(...)) yields is any
EtagLists(tags) == Orders(FlatTags(tags))

\* a Result whose status is that of the last register of the descriptor
ResultEntryLastStatus(value, t_states) ==
    [value |-> value, status |-> t_states[Len(t_states)]]

\* {"value": ..., "status": t_states[0]}
ResultEntry(value, t_states) == [value |-> value, status |-> t_states[1]]

\* the loop over temp_values: ", " and the label of each set position, added
\* to final_value
RECURSIVE Labelled(_, _, _, _)
Labelled(temp_values, value_map, idx, final_value) ==
    IF idx > Len(temp_values) THEN final_value
    ELSE Labelled(temp_values, value_map, idx + 1,
                  IF temp_values[idx]
                  THEN final_value \o <<",", " ">> \o value_map[idx]
                  ELSE final_value)

\* the translation with the leading ", " left in place
TranslatedUntrimmed(name, value) ==
    IF TranslateOf(name) /\ TagsOf(name)[1] \in DOMAIN LangMap /\ ~value.isNone
    THEN StrVal(Labelled(value.bits, LangMap[TagsOf(name)[1]], 1, <<>>))
    ELSE value

\* the value of the Result after the translate block: the labels of the set
\* positions, the leading ", " cut off with final_value[2:]. On a decoded
\* value of None len() raises, the handler logs it and the entry stays
Translated(name, value) ==
    IF TranslateOf(name) /\ TagsOf(name)[1] \in DOMAIN LangMap /\ ~value.isNone
    THEN LET final_value == Labelled(value.bits, LangMap[TagsOf(name)[1]], 1, <<>>)
         IN StrVal(IF Len(final_value) > 0
                   THEN SubSeq(final_value, 3, Len(final_value))
                   ELSE final_value)
    ELSE value

\* the loop of read_values with a decode failure that ends the loop
RECURSIVE read_values_loop_stops(_, _, _, _, _, _)
read_values_loop_stops(tags, i, vals, stats, result, bound) ==
    IF i > Len(tags) THEN Return(result)
    ELSE LET regs == TagsOf(tags[i])
             t_values == [k \in 1..Len(regs) |-> vals[regs[k]]]
             t_states == [k \in 1..Len(regs) |-> stats[regs[k]]]
             entry == ResultEntry(Translated(tags[i], Decode(tags[i], t_values)),
                                  t_states)
         IN IF DecodeFails(tags[i], t_values) THEN Return(result)
            ELSE read_values_loop_stops(tags, i + 1, vals, stats,
                                        DictSet(result, tags[i], entry), TRUE)

\* the loop of read_values over the descriptors, from position i on; bound
\* says whether t_values and t_states were assigned by an earlier iteration
RECURSIVE read_values_loop(_, _, _, _, _, _)
read_values_loop(tags, i, vals, stats, result, bound) ==
    IF i > Len(tags) THEN Return(result)
    ELSE LET regs == TagsOf(tags[i]) IN
         IF \E k \in 1..Len(regs) : regs[k] \notin DOMAIN vals
         THEN \* KeyError; its handler formats t_values and t_states
              IF bound
              THEN read_values_loop(tags, i + 1, vals, stats, result, bound)
              ELSE Raise("UnboundLocalError")
         ELSE LET t_values == [k \in 1..Len(regs) |-> vals[regs[k]]]
                  t_states == [k \in 1..Len(regs) |-> stats[regs[k]]]
                  entry == ResultEntry(Translated(tags[i], Decode(tags[i], t_values)),
                                       t_states)
              IN IF DecodeFails(tags[i], t_values)
                 THEN \* except Exception: logged, the loop goes on
                      read_values_loop(tags, i + 1, vals, stats, result, TRUE)
                 ELSE read_values_loop(tags, i + 1, vals, stats,
                                       DictSet(result, tags[i], entry), TRUE)

\* read_values after the await of _read_tags
read_values_finish(tags, ret) ==
    IF ret.shape = "none" THEN Raise("TypeError")
    ELSE IF ~ret.results.isNone /\ Cardinality(DOMAIN ret.results.d) > 0
         THEN read_values_loop(tags, 1, ret.results.d, ret.results_status.d,
                               EmptyDict, FALSE)
         ELSE Return(EmptyDict)

\* a _read_tags invocation returns ret to the frames below it
RECURSIVE read_tags_return(_, _, _)
read_tags_return(below, ret, tags) ==
    IF below = <<>>
    THEN [stack |-> <<>>, outcome |-> read_values_finish(tags, ret),
          e_values |-> IF ret.shape = "none" THEN e_values ELSE ret.results,
          e_status |-> IF ret.shape = "none" THEN e_status ELSE ret.results_status]
    ELSE LET caller == below[Len(below)]
             rest == SubSeq(below, 1, Len(below) - 1)
         IN IF caller.pc = "retry"
            THEN read_tags_return(rest, ret, tags)
            ELSE IF ret.shape = "none"
                 THEN [stack |-> <<>>, outcome |-> Raise("TypeError"),
                       e_values |-> e_values, e_status |-> e_status]
                 ELSE [stack |-> Append(rest,
                                   [caller EXCEPT
                                      !.results = ret.results,
                                      !.results_status = ret.results_status,
                                      !.tags = SliceFrom(caller.tags, tagsPerRequest),
                                      !.pc = "while"]),
                       outcome |-> NoOutcome,
                       e_values |-> e_values, e_status |-> e_status]

\* Python's None as what a call returns
PyNone == [isNone |-> TRUE]

\* read_value after the await of read_values: the Result of the descriptor,
\* or None when the dict has no entry for it; an exception passes through
read_value_finish(tag, o) ==
    IF o.kind = "return"
    THEN Return(IF tag \in DOMAIN o.result THEN o.result[tag] ELSE PyNone)
    ELSE o

\* what the top-level call in progress gives its caller when read_values
\* ends with o
ReadOutcome(o) == IF call = "read_value" THEN read_value_finish(rtags[1], o) ELSE o

\* the state after the innermost invocation returned ret
ReadReturns(ret) ==
    LET r == read_tags_return(Below, ret, rtags) IN
    /\ stack' = r.stack
    /\ outcome' = ReadOutcome(r.outcome)
    /\ e_values' = r.e_values
    /\ e_status' = r.e_status
    /\ op' = IF r.outcome.kind = "none" THEN "read" ELSE "idle"

\* the state after an exception no handler of the call catches
ReadRaises(exc) ==
    /\ stack' = <<>>
    /\ outcome' = Raise(exc)
    /\ op' = "idle"
    /\ UNCHANGED unpacked

\* a caller calls read_values(tags)
read_values(tags, order) ==
    /\ op = "idle"
    /\ call = "none"
    /\ order \in EtagLists(tags)
    /\ op' = "read"
    /\ call' = "read"
    /\ rtags' = tags
    /\ e_tags' = order
    /\ e_values' = NoneDict
    /\ e_status' = NoneDict
    /\ stack' = <<Frame(order, NoneDict, NoneDict)>>
    /\ net' = <<>>
    /\ outcome' = NoOutcome
    /\ wpairs' = <<>>
    /\ UNCHANGED <<apart, session, issued, wi, to_write, wresult, wpc>>

\* a caller calls read_value(tag): read_values([tag]) is awaited
read_value(tag, order) ==
    /\ op = "idle"
    /\ call = "none"
    /\ order \in EtagLists(<<tag>>)
    /\ op' = "read"
    /\ call' = "read_value"
    /\ rtags' = <<tag>>
    /\ e_tags' = order
    /\ e_values' = NoneDict
    /\ e_status' = NoneDict
    /\ stack' = <<Frame(order, NoneDict, NoneDict)>>
    /\ net' = <<>>
    /\ outcome' = NoOutcome
    /\ wpairs' = <<>>
    /\ UNCHANGED <<apart, session, issued, wi, to_write, wresult, wpc>>

\* while len(tags) > self.tagsPerRequest: the call for the next chunk
\* (a call nested MaxDepth deep raises RecursionError; of a loop over a chunk
\* size of 0, which sends a request and leaves tags as it is, MaxLoops
\* iterations are followed)
read_tags_while ==
    /\ op = "read"
    /\ Top.pc = "while"
    /\ Len(Top.tags) > tagsPerRequest
    /\ tagsPerRequest = 0 => Cardinality(Events("readTags")) < MaxLoops
    /\ IF Len(stack) >= MaxDepth
       THEN ReadRaises("RecursionError")
       ELSE /\ stack' = Append(SetTop([Top EXCEPT !.pc = "chunk"]),
                               Frame(SliceTo(Top.tags, tagsPerRequest),
                                     Top.results, Top.results_status))
            /\ UNCHANGED <<op, unpacked, outcome>>
    /\ UNCHANGED <<apart, session, issued, call, rtags, e_tags, writeState, net>>

\* the loop is left: the readTags request for tags is sent
read_tags_request ==
    /\ op = "read"
    /\ Top.pc = "while"
    /\ ~(Len(Top.tags) > tagsPerRequest)
    /\ net' = Append(net, ReqRead(Top.tags))
    /\ stack' = SetTop([Top EXCEPT !.pc = "resp"])
    /\ UNCHANGED <<apart, session, issued, op, call, rtags, e_tags, unpacked,
                   writeState, outcome>>

\* the response starts with #E_NEED_LOGIN: login with the stored credentials
read_tags_need_login ==
    /\ op = "read"
    /\ Top.pc = "resp"
    /\ login_request(username, password, Append(net, Resp("E_NEED_LOGIN")))
    /\ stack' = SetTop([Top EXCEPT !.pc = "login"])
    /\ UNCHANGED <<apart, auth_cookies, issued, op, call, rtags, e_tags, unpacked,
                   writeState, outcome>>

\* the device answers the login of a read: retry, or except StatusException
read_tags_login_response(status) ==
    /\ op = "read"
    /\ Top.pc = "login"
    /\ status = "S_OK" => issued < MaxCookies
    /\ net' = Append(net, LoginResp(status))
    /\ IF login_raises(status) = ""
       THEN /\ auth_cookies' = issued + 1
            /\ issued' = issued + 1
            /\ stack' = Append(SetTop([Top EXCEPT !.pc = "retry"]),
                               Frame(Top.tags, Top.results, Top.results_status))
            /\ UNCHANGED <<op, outcome, unpacked>>
       ELSE /\ UNCHANGED <<auth_cookies, issued>>
            /\ IF IsStatusException(login_raises(status))
               THEN ReadReturns(RetNonePair)
               ELSE ReadRaises(login_raises(status))
    /\ UNCHANGED <<apart, username, password, call, rtags, e_tags, writeState>>

\* the response starts with #E_TOO_MANY_USERS: return None
read_tags_too_many_users ==
    /\ op = "read"
    /\ Top.pc = "resp"
    /\ net' = Append(net, Resp("E_TOO_MANY_USERS"))
    /\ ReadReturns(RetNone)
    /\ UNCHANGED <<apart, session, issued, call, rtags, e_tags, writeState>>

\* any other response: one entry per requested tag, then return
read_tags_parse ==
    /\ op = "read"
    /\ Top.pc = "resp"
    /\ \E body \in ReadBodies(Top.tags) :
          /\ net' = Append(net, RespBody(body))
          /\ IF Len(Top.tags) > 0 /\ Top.results_status.isNone
             THEN \* results_status[tag] = ... on None
                  ReadRaises("TypeError")
             ELSE ReadReturns(RetPair(
                      IF Top.results.isNone THEN NoneDict
                      ELSE SomeDict(ParseValues(Top.tags, body, Top.results.d)),
                      IF Top.results_status.isNone THEN NoneDict
                      ELSE SomeDict(ParseStatus(Top.tags, body, Top.results_status.d))))
    /\ UNCHANGED <<apart, session, issued, call, rtags, e_tags, writeState>>

\* ------------------------------------------------------------ write_values
\* to_write[tag] = raw on the insertion-ordered dict to_write
OrderedSet(d, tag, raw) ==
    IF \E i \in 1..Len(d) : d[i].tag = tag
    THEN [i \in 1..Len(d) |-> IF d[i].tag = tag THEN [tag |-> tag, raw |-> raw] ELSE d[i]]
    ELSE Append(d, [tag |-> tag, raw |-> raw])

\* to_write.keys() and to_write.values()
Keys(d) == [i \in 1..Len(d) |-> d[i].tag]
Values(d) == [i \in 1..Len(d) |-> d[i].raw]

\* a_eco_tag.encode_function(a_eco_tag, value, to_write)
Encode(name, value, d) == OrderedSet(d, TagsOf(name)[1], EncodeDefault(value))

\* all_ok: every echoed register has status S_OK
AllOk(stats) == \A t \in DOMAIN stats : stats[t] = "S_OK"

\* the echo check with the comparison inverted
write_values_check_inverted(name, value, vals, stats, result) ==
    IF Cardinality(DOMAIN vals) > 0 /\ AllOk(stats)
    THEN LET regs == TagsOf(name)
             str_vals == [k \in 1..Len(regs) |-> vals[regs[k]]]
             val == DecodeDefault(str_vals)
         IN IF PyStr(val) = PyStr(value)
            THEN result
            ELSE DictSet(result, name, [value |-> val, status |-> stats[regs[1]]])
    ELSE result

\* the echo check that takes the entry of the descriptor out of the result
\* dict when the check fails
write_values_check_removes(name, value, vals, stats, result) ==
    LET without == [n \in (DOMAIN result) \ {name} |-> result[n]] IN
    IF Cardinality(DOMAIN vals) > 0 /\ AllOk(stats)
    THEN LET regs == TagsOf(name)
             str_vals == [k \in 1..Len(regs) |-> vals[regs[k]]]
             val == DecodeDefault(str_vals)
         IN IF PyStr(val) # PyStr(value)
            THEN without
            ELSE DictSet(result, name, [value |-> val, status |-> stats[regs[1]]])
    ELSE without

\* write_values after _write_tags returned (e_values, e_status): the result dict
write_values_check(name, value, vals, stats, result) ==
    IF Cardinality(DOMAIN vals) > 0 /\ AllOk(stats)
    THEN LET regs == TagsOf(name)
             str_vals == [k \in 1..Len(regs) |-> vals[regs[k]]]
             val == DecodeDefault(str_vals)
         IN IF PyStr(val) # PyStr(value)
            THEN result
            ELSE DictSet(result, name, [value |-> val, status |-> stats[regs[1]]])
    ELSE result

\* the state after write_values returned or raised
WriteEnds(o) ==
    /\ outcome' = o
    /\ op' = "idle"
    /\ wpc' = "loop"
    /\ wi' = 0
    /\ to_write' = <<>>
    /\ wresult' = EmptyDict

\* a caller calls write_values(kv_pairs)
write_values(kv_pairs) ==
    /\ op = "idle"
    /\ call = "none"
    /\ op' = "write"
    /\ call' = "write"
    /\ e_tags' = <<>>
    /\ e_values' = NoneDict
    /\ e_status' = NoneDict
    /\ wpairs' = kv_pairs
    /\ wi' = 1
    /\ to_write' = <<>>
    /\ wresult' = EmptyDict
    /\ wpc' = "loop"
    /\ net' = <<>>
    /\ outcome' = NoOutcome
    /\ rtags' = <<>>
    /\ UNCHANGED <<apart, session, issued, stack>>

\* for a_eco_tag, value in kv_pairs: the writeable check and the encoding
write_values_next ==
    /\ op = "write"
    /\ wpc = "loop"
    /\ IF wi > Len(wpairs)
       THEN WriteEnds(Return(wresult))
       ELSE IF ~Writeable(wpairs[wi].tag)
            THEN WriteEnds(Raise("InvalidValueException"))
            ELSE /\ to_write' = Encode(wpairs[wi].tag, wpairs[wi].value, to_write)
                 /\ wpc' = "send"
                 /\ UNCHANGED <<op, outcome, wi, wresult>>
    /\ UNCHANGED <<apart, session, issued, call, readState, unpacked, wpairs, net>>

\* _write_tags: the writeTags request with every tag and value of to_write
write_tags_request ==
    /\ op = "write"
    /\ wpc = "send"
    /\ net' = Append(net, ReqWrite(Keys(to_write), Values(to_write)))
    /\ wpc' = "resp"
    /\ UNCHANGED <<apart, session, issued, op, call, readState, unpacked, wpairs,
                   wi, to_write, wresult, outcome>>

\* the response starts with #E_NEED_LOGIN: login with the stored credentials
write_tags_need_login ==
    /\ op = "write"
    /\ wpc = "resp"
    /\ login_request(username, password, Append(net, Resp("E_NEED_LOGIN")))
    /\ wpc' = "login"
    /\ UNCHANGED <<apart, auth_cookies, issued, op, call, readState, unpacked,
                   wpairs, wi, to_write, wresult, outcome>>

\* the device answers the login of a write: retry, or return None, which
\* write_values cannot unpack
write_tags_login_response(status) ==
    /\ op = "write"
    /\ wpc = "login"
    /\ status = "S_OK" => issued < MaxCookies
    /\ net' = Append(net, LoginResp(status))
    /\ IF login_raises(status) = ""
       THEN /\ auth_cookies' = issued + 1
            /\ issued' = issued + 1
            /\ wpc' = "send"
            /\ UNCHANGED <<op, outcome, wi, to_write, wresult>>
       ELSE /\ UNCHANGED <<auth_cookies, issued>>
            /\ IF IsStatusException(login_raises(status))
               THEN WriteEnds(Raise("TypeError"))
               ELSE WriteEnds(Raise(login_raises(status)))
    /\ UNCHANGED <<apart, username, password, call, readState, unpacked, wpairs>>

\* the response starts with #E_TOO_MANY_USERS: return None, which
\* write_values cannot unpack
write_tags_too_many_users ==
    /\ op = "write"
    /\ wpc = "resp"
    /\ net' = Append(net, Resp("E_TOO_MANY_USERS"))
    /\ WriteEnds(Raise("TypeError"))
    /\ UNCHANGED <<apart, session, issued, call, readState, unpacked, wpairs>>

\* any other response: one entry per written tag, the echo check, next pair
write_tags_parse ==
    /\ op = "write"
    /\ wpc = "resp"
    /\ net' = Append(net, Resp("BODY"))
    /\ \E body \in WriteBodies(Keys(to_write)) :
          /\ e_values' = SomeDict(ParseValues(Keys(to_write), body, EmptyDict))
          /\ e_status' = SomeDict(ParseStatus(Keys(to_write), body, EmptyDict))
          /\ wresult' = write_values_check(wpairs[wi].tag, wpairs[wi].value,
                                           e_values'.d, e_status'.d, wresult)
    /\ wi' = wi + 1
    /\ wpc' = "loop"
    /\ UNCHANGED <<apart, session, issued, op, call, readState, wpairs,
                   to_write, outcome>>

\* ------------------------------------------------------------ failing login
\* session.get or response.text() of login() raises, or the HTTP status is
\* not 200 (assert): the exception leaves login(); when a read or a write
\* made the login after #E_NEED_LOGIN it is no StatusException and leaves
\* read_values or write_values too
login_fails(exc) ==
    /\ net' = Append(net, TransportError)
    /\ CASE op = "login" ->
               /\ outcome' = Raise(exc)
               /\ op' = "idle"
               /\ UNCHANGED <<apart, session, issued, call, readState, unpacked,
                              writeState>>
         [] op = "read" /\ Top.pc = "login" ->
               /\ ReadRaises(exc)
               /\ UNCHANGED <<apart, session, issued, call, rtags, e_tags, writeState>>
         [] op = "write" /\ wpc = "login" ->
               /\ WriteEnds(Raise(exc))
               /\ UNCHANGED <<apart, session, issued, call, readState, unpacked, wpairs>>
         [] OTHER -> FALSE

\* ------------------------------------------------------------------- calls
\* the caller has taken what the finished coroutine returned or raised: the
\* coroutine and its locals are gone, the fields of the bridge remain
Released ==
    /\ call' = "none"
    /\ net' = <<>>
    /\ outcome' = NoOutcome
    /\ rtags' = <<>>
    /\ e_tags' = <<>>
    /\ e_values' = NoneDict
    /\ e_status' = NoneDict
    /\ wpairs' = <<>>
    /\ UNCHANGED <<tagsPerRequest, tasks, requestedSize, session, issued, op, stack,
                   wi, to_write, wresult, wpc>>

release ==
    /\ op = "idle"
    /\ call # "none"
    /\ Released
    /\ UNCHANGED earlier

\* the same for a finished read, with the registers it asked for noted in
\* the history
release_read ==
    /\ op = "idle"
    /\ call = "read"
    /\ Released
    /\ earlier' = earlier \cup Range(e_tags)

\* the descriptor lists read_values is called with: at most max descriptors of
\* the sequence cat, each once, in the order of cat (the order of their
\* registers in the requests is any, see read_values)
ReadLists(cat, max) ==
    {[i \in 1..Len(a) |-> cat[a[i]]] :
        a \in {b \in UNION {[1..n -> 1..Len(cat)] : n \in 0..max} :
                  \A i, j \in 1..Len(b) : i < j => b[i] < b[j]}}

\* the descriptors with the default numeric codec
NumericCatalogue == SelectSeq(Catalogue, LAMBDA name : ~IsBoolean(name))

\* the reads of the bridge that is logged in to, read and written
ReadArgs == ReadLists(NumericCatalogue, MaxRead)

\* the reads of the bridge whose session the device keeps open
ReadArgsWide == ReadLists(Catalogue, MaxReadWide)

\* the reads of descriptors with a codec of their own
ReadArgsCodec == ReadLists(CodecCatalogue, MaxReadCodec)

\* the descriptors a caller writes: those with the default numeric codec
WriteTags == Range(NumericCatalogue)

\* the (descriptor, value) lists write_values is called with
WriteArgs ==
    UNION {[1..n -> [tag : WriteTags, value : WriteValuesDomain]] : n \in 0..MaxPairs}

Next ==
    \/ \E c \in Credentials : login(c[1], c[2])
    \/ \E status \in LoginStatuses : login_response(status)
    \/ \E exc \in LoginFailures : login_fails(exc)
    \/ logout
    \/ logout_response
    \/ \E exc \in LogoutFailures : logout_fails(exc)
    \/ \E tags \in ReadArgs : \E order \in EtagLists(tags) :
          read_values(tags, order)
    \/ \E tag \in Range(NumericCatalogue) : \E order \in EtagLists(<<tag>>) :
          read_value(tag, order)
    \/ read_tags_while
    \/ read_tags_request
    \/ read_tags_need_login
    \/ \E status \in LoginStatuses : read_tags_login_response(status)
    \/ read_tags_too_many_users
    \/ read_tags_parse
    \/ \E kv_pairs \in WriteArgs : write_values(kv_pairs)
    \/ write_values_next
    \/ write_tags_request
    \/ write_tags_need_login
    \/ \E status \in LoginStatuses : write_tags_login_response(status)
    \/ write_tags_too_many_users
    \/ write_tags_parse
    \/ release

Spec == Init /\ [][Next]_vars

\* a bridge read from and written to while the device keeps the session open:
\* no response is a sentinel
NextOpenSession ==
    \/ \E tags \in ReadArgsWide \cup ReadArgsCodec : \E order \in EtagLists(tags) :
          read_values(tags, order)
    \/ read_tags_while
    \/ read_tags_request
    \/ read_tags_parse
    \/ \E kv_pairs \in WriteArgs : write_values(kv_pairs)
    \/ write_values_next
    \/ write_tags_request
    \/ write_tags_parse
    \/ release

SpecOpenSession == Init /\ [][NextOpenSession]_vars

\* a bridge read from again and again, the history kept
NextReadSequence ==
    \/ \E tags \in ReadArgs : \E order \in EtagLists(tags) :
          read_values(tags, order)
    \/ read_tags_while
    \/ read_tags_request
    \/ read_tags_need_login
    \/ \E status \in LoginStatuses : read_tags_login_response(status)
    \/ \E exc \in LoginFailures : login_fails(exc)
    \/ read_tags_too_many_users
    \/ read_tags_parse
    \/ release_read

SpecReadSequence == Init /\ [][NextReadSequence]_vars

\* a bridge of any chunk size read from, the device answering every request
\* with a body
ReadStep ==
    \/ read_tags_while
    \/ read_tags_request
    \/ read_tags_parse

NextAnyChunk ==
    \/ \E tags \in ReadArgs : \E order \in EtagLists(tags) :
          read_values(tags, order)
    \/ ReadStep
    \/ release

SpecAnyChunk == InitAnyChunk /\ [][NextAnyChunk]_vars

\* the same with the event loop running the coroutine of a started read on
SpecAnyChunkFair == SpecAnyChunk /\ WF_vars(ReadStep)

\* -------------------------------------------------------- concurrent reads
\* NumTasks calls of read_values are run by the event loop on one bridge
\* (asyncio.gather): the coroutines interleave at their awaits; each has its
\* own locals and its own nest of _read_tags invocations, while self.username,
\* self.password, self.auth_cookies and self.tagsPerRequest are shared.
\* The net log holds the login requests in the order they were sent.
Tasks == 1..NumTasks

\* the descriptor lists the concurrent calls read, by turns
TaskReadLists ==
    <<(<<"TEMPERATURE_OUTSIDE">>), (<<"TEMPERATURE_ROOM_TARGET", "ROOM_INFLUENCE">>)>>

\* the descriptors task t reads
TaskRead(t) == TaskReadLists[((t - 1) % Len(TaskReadLists)) + 1]

\* no login response held
NoLoginResponse == [held |-> FALSE, cookie |-> 0]

\* the login response session.get returned: its cookies hold a new session
\* cookie when the device granted the session (cookie 0: none)
LoginResponse(cookie) == [held |-> TRUE, cookie |-> cookie]

\* a task entering _read_tags from read_values(tags), its e_tags being order;
\* pc is where the coroutine stands (request, resp, login, login_body, done),
\* response the login response whose body it awaits
TaskStart(tags, order) ==
    [pc |-> "request", outcome |-> NoOutcome, response |-> NoLoginResponse,
     rtags |-> tags, e_tags |-> order,
     e_values |-> NoneDict, e_status |-> NoneDict,
     stack |-> <<Frame(order, NoneDict, NoneDict)>>]

\* the ways task t can start
TaskStarts(t) == {TaskStart(TaskRead(t), order) : order \in EtagLists(TaskRead(t))}

InitTasks ==
    /\ InitBridge
    /\ tasks \in [Tasks -> UNION {TaskStarts(t) : t \in Tasks}]
    /\ \A t \in Tasks : tasks[t] \in TaskStarts(t)

\* what is common to the steps of a task
TaskFrame ==
    UNCHANGED <<tagsPerRequest, earlier, requestedSize, op, call, readState, unpacked, writeState, outcome>>

\* the innermost invocation of task t, and those below it
TaskTop(t) == tasks[t].stack[Len(tasks[t].stack)]
TaskBelow(t) == SubSeq(tasks[t].stack, 1, Len(tasks[t].stack) - 1)

\* task t after its innermost invocation returned ret
TaskReturns(t, ret) ==
    LET r == read_tags_return(TaskBelow(t), ret, tasks[t].rtags) IN
    [tasks[t] EXCEPT
        !.stack = r.stack,
        !.outcome = r.outcome,
        !.pc = IF r.outcome.kind = "none" THEN "request" ELSE "done",
        !.e_values = IF r.stack = <<>> /\ ret.shape # "none" THEN ret.results ELSE @,
        !.e_status = IF r.stack = <<>> /\ ret.shape # "none"
                     THEN ret.results_status ELSE @]

\* task t after an exception no handler of its call catches
TaskRaises(t, exc) ==
    [tasks[t] EXCEPT !.stack = <<>>, !.outcome = Raise(exc), !.pc = "done"]

\* while len(tags) > self.tagsPerRequest in task t: the call for the next chunk
task_while(t) ==
    /\ tasks[t].pc = "request"
    /\ Len(TaskTop(t).tags) > tagsPerRequest
    /\ tasks' = [tasks EXCEPT ![t] =
                   IF Len(tasks[t].stack) >= MaxDepth
                   THEN TaskRaises(t, "RecursionError")
                   ELSE [tasks[t] EXCEPT
                            !.stack = Append(Append(TaskBelow(t),
                                                    [TaskTop(t) EXCEPT !.pc = "chunk"]),
                                             Frame(SliceTo(TaskTop(t).tags, tagsPerRequest),
                                                   TaskTop(t).results,
                                                   TaskTop(t).results_status))]]
    /\ UNCHANGED <<session, issued, net>>
    /\ TaskFrame

\* _read_tags of task t sends its readTags request with self.auth_cookies
task_request(t) ==
    /\ tasks[t].pc = "request"
    /\ ~(Len(TaskTop(t).tags) > tagsPerRequest)
    /\ tasks' = [tasks EXCEPT
                   ![t].pc = "resp",
                   ![t].stack = Append(TaskBelow(t), [TaskTop(t) EXCEPT !.pc = "resp"])]
    /\ UNCHANGED <<session, issued, net>>
    /\ TaskFrame

\* the response of task t starts with #E_NEED_LOGIN: it awaits self.login
task_need_login(t) ==
    /\ tasks[t].pc = "resp"
    /\ login_request(username, password, net)
    /\ tasks' = [tasks EXCEPT
                   ![t].pc = "login",
                   ![t].stack = Append(TaskBelow(t), [TaskTop(t) EXCEPT !.pc = "login"])]
    /\ UNCHANGED <<auth_cookies, issued>>
    /\ TaskFrame

\* the device answers the login of task t: session.get returns the response
\* with its cookies, a new one when the device grants the session; the task
\* awaits the body (response.text()), where the other tasks run
task_login_answered(t, granted) ==
    /\ tasks[t].pc = "login"
    /\ granted => issued < MaxCookies
    /\ issued' = IF granted THEN issued + 1 ELSE issued
    /\ tasks' = [tasks EXCEPT
                   ![t].pc = "login_body",
                   ![t].response = LoginResponse(IF granted THEN issued + 1 ELSE 0)]
    /\ UNCHANGED <<session, net>>
    /\ TaskFrame

\* task t has the body of its login response, S_OK when the session was
\* granted: the cookies of the response are stored and the request retried,
\* or except StatusException returns (None, None)
task_login_response(t, status) ==
    /\ tasks[t].pc = "login_body"
    /\ status = "S_OK" <=> tasks[t].response.cookie # 0
    /\ LET after == [tasks[t] EXCEPT !.response = NoLoginResponse] IN
       IF login_raises(status) = ""
       THEN /\ auth_cookies' = tasks[t].response.cookie
            /\ tasks' = [tasks EXCEPT ![t] =
                           [after EXCEPT
                              !.pc = "request",
                              !.stack =
                                  Append(Append(TaskBelow(t),
                                                [TaskTop(t) EXCEPT !.pc = "retry"]),
                                         Frame(TaskTop(t).tags, TaskTop(t).results,
                                               TaskTop(t).results_status))]]
       ELSE /\ UNCHANGED auth_cookies
            /\ tasks' = [tasks EXCEPT ![t] =
                           IF IsStatusException(login_raises(status))
                           THEN [TaskReturns(t, RetNonePair) EXCEPT
                                    !.response = NoLoginResponse]
                           ELSE [TaskRaises(t, login_raises(status)) EXCEPT
                                    !.response = NoLoginResponse]]
    /\ UNCHANGED <<username, password, issued, net>>
    /\ TaskFrame

\* the login of task t fails: in transport at the GET or while the body is
\* read, or on the HTTP status of the response; the exception ends the call
task_login_fails(t, exc) ==
    /\ \/ tasks[t].pc = "login"
       \/ tasks[t].pc = "login_body" /\ exc = "ClientError"
    /\ tasks' = [tasks EXCEPT ![t] =
                   [TaskRaises(t, exc) EXCEPT !.response = NoLoginResponse]]
    /\ UNCHANGED <<session, issued, net>>
    /\ TaskFrame

\* the response of task t starts with #E_TOO_MANY_USERS: return None
task_too_many_users(t) ==
    /\ tasks[t].pc = "resp"
    /\ tasks' = [tasks EXCEPT ![t] = TaskReturns(t, RetNone)]
    /\ UNCHANGED <<session, issued, net>>
    /\ TaskFrame

\* any other response to task t: one entry per requested tag, then return
task_parse(t) ==
    /\ tasks[t].pc = "resp"
    /\ \E body \in ReadBodies(TaskTop(t).tags) :
          tasks' = [tasks EXCEPT ![t] =
                      IF Len(TaskTop(t).tags) > 0 /\ TaskTop(t).results_status.isNone
                      THEN TaskRaises(t, "TypeError")
                      ELSE TaskReturns(t, RetPair(
                               IF TaskTop(t).results.isNone THEN NoneDict
                               ELSE SomeDict(ParseValues(TaskTop(t).tags, body,
                                                         TaskTop(t).results.d)),
                               IF TaskTop(t).results_status.isNone THEN NoneDict
                               ELSE SomeDict(ParseStatus(TaskTop(t).tags, body,
                                                         TaskTop(t).results_status.d))))]
    /\ UNCHANGED <<session, issued, net>>
    /\ TaskFrame

NextTasks ==
    \/ \E t \in DOMAIN tasks : task_while(t)
    \/ \E t \in DOMAIN tasks : task_request(t)
    \/ \E t \in DOMAIN tasks : task_need_login(t)
    \/ \E t \in DOMAIN tasks : \E granted \in BOOLEAN : task_login_answered(t, granted)
    \/ \E t \in DOMAIN tasks : \E status \in LoginStatuses : task_login_response(t, status)
    \/ \E t \in DOMAIN tasks : \E exc \in LoginFailures : task_login_fails(t, exc)
    \/ \E t \in DOMAIN tasks : task_too_many_users(t)
    \/ \E t \in DOMAIN tasks : task_parse(t)

SpecTasks == InitTasks /\ [][NextTasks]_vars

\* one bridge read from either by one caller, call after call, or by
\* NumTasks coroutines at once
InitReadCalls == Init \/ InitTasks

NextReadCalls ==
    \/ tasks = <<>> /\ NextReadSequence
    \/ NextTasks

SpecReadCalls == InitReadCalls /\ [][NextReadCalls]_vars

\* ---------------------------------------------------------- reading the log
\* the positions of the responses with the given status
Responses(ev, status) == {i \in Events(ev) : net[i].status = status}

\* a top-level call of kind c has finished
Finished(c) == call = c /\ op = "idle"

\* the login statuses that reject the login
Rejections == {"E_TOO_MANY_USERS", "E_PASS_DONT_MATCH"}

\* ------------------------------------------------------------------ claims
\* C1: in a read call no chunk is requested a third time: a needs-login
\* answer triggers one login and one retry of the chunk, and a second
\* needs-login answer to the same chunk ends the call.
C1_ReadRetriesOnce ==
    (call = "read" /\ rtags # <<>>) =>
        \A i \in Events("readTags") :
            Cardinality({j \in Events("readTags") : net[j].tags = net[i].tags}) <= 2

\* C2: in a write call of one descriptor at most one login and at most one
\* retry of the payload are issued.
C2_WriteRetriesOnce ==
    (call = "write" /\ Len(wpairs) = 1) =>
        /\ Cardinality(Events("login")) <= 1
        /\ Cardinality(Events("writeTags")) <= 2

\* C3: a read whose re-login was rejected with a status that is neither OK nor
\* the capacity status ends with a session error, not with a result map.
C3_RejectedReloginSurfaces ==
    (Finished("read") /\ rtags # <<>>
       /\ Responses("loginResp", "E_PASS_DONT_MATCH") # {}) =>
        outcome = Raise("StatusException")

\* C4: a read or write that received the too-many-users sentinel ends with
\* the capacity error.
C4_CapacitySentinelRaises ==
    (/\ Finished("read") \/ Finished("write")
     /\ rtags # <<>> \/ wpairs # <<>>
     /\ Responses("resp", "E_TOO_MANY_USERS") # {}) =>
        outcome = Raise("TooManyUsersException")

\* C5: a read or write whose re-login was answered with E_TOO_MANY_USERS ends
\* with the capacity error.
C5_ReloginCapacityDistinguished ==
    (/\ Finished("read") \/ Finished("write")
     /\ rtags # <<>> \/ wpairs # <<>>
     /\ Responses("loginResp", "E_TOO_MANY_USERS") # {}) =>
        outcome = Raise("TooManyUsersException")

\* a chunk failed outright at position i of the log: its re-login was
\* rejected, or it was answered with the capacity sentinel
ChunkFailedAt(i) ==
    \/ net[i].ev = "loginResp" /\ net[i].status \in Rejections
    \/ net[i].ev = "resp" /\ net[i].status = "E_TOO_MANY_USERS"

\* C6: after a chunk of a read failed outright the call sends no further
\* readTags request.
C6_FailedChunkAborts ==
    call = "read" =>
        ~ \E i \in 1..Len(net) : \E j \in Events("readTags") :
              i < j /\ ChunkFailedAt(i)

\* the tags of the readTags requests of the log, request by request
RECURSIVE RequestedTags(_)
RequestedTags(log) ==
    IF log = <<>> THEN <<>>
    ELSE (IF Head(log).ev = "readTags" THEN <<Head(log).tags>> ELSE <<>>)
         \o RequestedTags(Tail(log))

\* a list of lists, joined
RECURSIVE Flatten(_)
Flatten(ss) == IF ss = <<>> THEN <<>> ELSE Head(ss) \o Flatten(Tail(ss))

\* ceil(n / c)
Ceil(n, c) == (n + c - 1) \div c

\* no response of the call was the needs-login or the capacity sentinel
NoSentinel ==
    /\ Responses("resp", "E_NEED_LOGIN") = {}
    /\ Responses("resp", "E_TOO_MANY_USERS") = {}

\* C7: a read of N >= 1 register codes that meets no sentinel sends
\* ceil(N / c) readTags requests, each with 1..c codes, consecutive slices of
\* the flattened list in order, and the merged result has exactly N entries.
C7_ChunkedRead ==
    (Finished("read") /\ Len(e_tags) >= 1 /\ NoSentinel) =>
        LET reqs == RequestedTags(net) IN
        /\ Len(reqs) = Ceil(Len(e_tags), tagsPerRequest)
        /\ \A k \in 1..Len(reqs) : Len(reqs[k]) \in 1..tagsPerRequest
        /\ Flatten(reqs) = e_tags
        /\ ~e_values.isNone /\ ~e_status.isNone
        /\ DOMAIN e_values.d = Range(e_tags)
        /\ DOMAIN e_status.d = Range(e_tags)
        /\ Cardinality(DOMAIN e_values.d) = Len(e_tags)

\* a read of three codes with chunk size two has finished in two requests
C7_Witness ==
    /\ Finished("read") /\ NoSentinel
    /\ Len(e_tags) = 3 /\ tagsPerRequest = 2
    /\ Len(RequestedTags(net)) = 2

\* C8: write_value on a descriptor that is not writeable (TEMPERATURE_OUTSIDE,
\* declared without the writeable flag) raises the invalid value error in its
\* first step, with no request sent and the cookie and the credentials
\* unchanged.
C8_ReadOnlyWriteFailsLocally ==
    [][(op = "write" /\ Len(wpairs) = 1
          /\ wpairs[1].tag = "TEMPERATURE_OUTSIDE") =>
          /\ net = <<>> /\ net' = <<>>
          /\ op' = "idle"
          /\ outcome' = Raise("InvalidValueException")
          /\ UNCHANGED <<username, password, auth_cookies>>]_vars

\* write_value on TEMPERATURE_OUTSIDE has raised, the session cookie is held
C8_Witness ==
    /\ Finished("write")
    /\ wpairs = <<[tag |-> "TEMPERATURE_OUTSIDE", value |-> FloatVal(21, 5)]>>
    /\ outcome = Raise("InvalidValueException")
    /\ net = <<>>
    /\ auth_cookies > 0

\* the decoded echo of the last writeTags response, for descriptor name
Echo(name) ==
    DecodeDefault([k \in 1..Len(TagsOf(name)) |-> e_values.d[TagsOf(name)[k]]])

\* write_value has finished on a response whose registers are all S_OK
WriteEchoed ==
    /\ Finished("write")
    /\ Len(wpairs) = 1
    /\ Len(net) > 0 /\ net[Len(net)].ev = "resp" /\ net[Len(net)].status = "BODY"
    /\ ~e_values.isNone /\ AllOk(e_status.d)

\* C9 as stated: an echo that decodes to another value than the requested one
\* is returned as the Result of the descriptor.
C9_MismatchReturnsEcho ==
    (WriteEchoed /\ Echo(wpairs[1].tag) # wpairs[1].value) =>
        /\ outcome.kind = "return"
        /\ wpairs[1].tag \in DOMAIN outcome.result
        /\ outcome.result[wpairs[1].tag].value = Echo(wpairs[1].tag)

\* every pair of a write_values call got its echo, all registers of the last
\* one with S_OK
AllPairsEchoed ==
    /\ Finished("write")
    /\ Len(wpairs) >= 1
    /\ Cardinality(Responses("resp", "BODY")) = Len(wpairs)
    /\ ~e_values.isNone /\ AllOk(e_status.d)

\* C10: when every echoed register is S_OK and the echo decodes to the
\* requested value, the result holds the decoded echo with status S_OK.
C10_MatchingEchoReturned ==
    (AllPairsEchoed /\ Echo(wpairs[Len(wpairs)].tag) = wpairs[Len(wpairs)].value) =>
        /\ outcome.kind = "return"
        /\ wpairs[Len(wpairs)].tag \in DOMAIN outcome.result
        /\ outcome.result[wpairs[Len(wpairs)].tag] =
               [value |-> Echo(wpairs[Len(wpairs)].tag), status |-> "S_OK"]

\* 21.5 was written to TEMPERATURE_ROOM_TARGET and echoed as 215 with S_OK
C10_Witness ==
    /\ AllPairsEchoed
    /\ wpairs = <<[tag |-> "TEMPERATURE_ROOM_TARGET", value |-> FloatVal(21, 5)]>>
    /\ e_values.d["A100"] = RawStr(215)
    /\ outcome.kind = "return"
\* C11: after logout() has finished, with the HTTP call answered or failed in
\* transport, the session cookie is unset.
C11_LogoutClearsCookie ==
    Finished("logout") => auth_cookies = 0

\* C12: a top-level login() maps the device's status to one outcome: S_OK
\* stores the cookie the device granted and returns; E_TOO_MANY_USERS raises
\* the capacity error; another non-OK status raises the generic session error;
\* both errors leave the cookie as it was.
C12_LoginStatusMapping ==
    [][(op = "login" /\ op' = "idle" /\ net'[Len(net')].ev = "loginResp") =>
          LET status == net'[Len(net')].status IN
          /\ status = "S_OK" =>
                /\ outcome' = Return(EmptyDict)
                /\ issued' = issued + 1
                /\ auth_cookies' = issued'
          /\ status = "E_TOO_MANY_USERS" =>
                /\ outcome' = Raise("TooManyUsersException")
                /\ auth_cookies' = auth_cookies
          /\ status = "E_PASS_DONT_MATCH" =>
                /\ outcome' = Raise("StatusException")
                /\ auth_cookies' = auth_cookies]_vars

\* a login answered E_TOO_MANY_USERS has raised the capacity error while the
\* cookie of an earlier login is still held
C12_Witness ==
    /\ Finished("login")
    /\ net[Len(net)] = LoginResp("E_TOO_MANY_USERS")
    /\ outcome = Raise("TooManyUsersException")
    /\ auth_cookies > 0

\* C13: the stored credentials are replaced only by a successful login: they
\* change only in a step in which a login is answered S_OK.
C13_CredentialsReplacedOnlyOnSuccess ==
    [][(username' # username \/ password' # password) =>
          (Len(net') > 0 /\ net'[Len(net')] = LoginResp("S_OK"))]_vars

\* the last login response of the log, 0 when there is none
LastLoginResp ==
    IF Events("loginResp") = {} THEN 0
    ELSE CHOOSE i \in Events("loginResp") : \A j \in Events("loginResp") : j <= i

\* C14: the cookie is unset before the first successful login, and a read or
\* write whose last transparent re-login was rejected ends with the cookie
\* unset.
C14_SessionStateMachine ==
    /\ issued = 0 => auth_cookies = 0
    /\ ((Finished("read") \/ Finished("write")) /\ LastLoginResp > 0) =>
          (net[LastLoginResp].status \in Rejections => auth_cookies = 0)

\* the positions of the readTags and writeTags requests of the log
TagRequests == Events("readTags") \cup Events("writeTags")

\* C15: in a read or write call every login follows a needs-login response
\* and carries the stored credentials, and the request retried after the
\* login repeats the rejected one with a cookie newer than the cookie of every
\* request sent before it.
C15_ImplicitReauth ==
    call \in {"read", "write"} =>
        /\ \A i \in Events("login") :
              /\ i > 1 /\ net[i - 1] = Resp("E_NEED_LOGIN")
              /\ net[i].user = username /\ net[i].pass = password
        /\ \A j \in TagRequests :
              (j > 1 /\ net[j - 1].ev = "loginResp" /\ net[j - 1].status = "S_OK") =>
                  /\ net[j - 4].ev = net[j].ev
                  /\ net[j - 4].tags = net[j].tags
                  /\ \A k \in TagRequests : k < j => net[j].cookie > net[k].cookie

\* a read sent with an expired cookie was retried after a re-login with the
\* credentials of an earlier login("admin", "secret")
C15_Witness ==
    /\ call = "read"
    /\ username = "admin"
    /\ \E j \in Events("readTags") :
          /\ j > 4
          /\ net[j - 1].ev = "loginResp" /\ net[j - 1].status = "S_OK"
          /\ net[j - 4].cookie > 0
          /\ net[j].cookie > net[j - 4].cookie

\* C19: every writeTags request carries the registers of exactly one
\* descriptor, the one of the pair it is issued for.
C19_OneDescriptorPerRequest ==
    call = "write" =>
        \A i \in Events("writeTags") :
            \E k \in 1..Len(wpairs) : net[i].tags = TagsOf(wpairs[k].tag)

\* C20: no writeTags request carries more tags than the chunk size.
C20_WritesChunked ==
    call = "write" =>
        \A i \in Events("writeTags") : Len(net[i].tags) <= tagsPerRequest
\* the (status, value) entry the response body gives a requested register
Entry(block) ==
    CASE block.kind = "full" -> [status |-> block.status, value |-> RawStr(block.n)]
      [] block.kind = "inactive" -> [status |-> "E_INACTIVE", value |-> RawNone]
      [] block.kind = "missing" -> [status |-> "E_NOTFOUND", value |-> RawNone]

\* the registers of the request answered at position i of the log have the
\* entries of that response
EntriesMatch(i) ==
    \A t \in Range(net[i - 1].tags) :
        /\ t \in DOMAIN e_values.d /\ t \in DOMAIN e_status.d
        /\ e_status.d[t] = Entry(net[i].body[t]).status
        /\ e_values.d[t] = Entry(net[i].body[t]).value

\* C17: for a normal response every requested register gets one entry: the
\* reported status and signed value of a full block, (E_INACTIVE, None) for an
\* inactive tag, (E_NOTFOUND, None) for a missing block; a miss does not fail
\* the call and leaves the entries of the other registers alone.  A read is
\* compared with the bodies it received, a write has one entry of one of the
\* three forms for each register it sent.
C17_EntryPerRegister ==
    /\ (Finished("read") /\ NoSentinel /\ Len(e_tags) >= 1) =>
          /\ outcome.kind = "return"
          /\ ~e_values.isNone /\ ~e_status.isNone
          /\ DOMAIN e_values.d = Range(e_tags)
          /\ DOMAIN e_status.d = Range(e_tags)
          /\ \A i \in Responses("resp", "BODY") : EntriesMatch(i)
    /\ (call = "write" /\ Len(net) > 1
          /\ net[Len(net)].ev = "resp" /\ net[Len(net)].status = "BODY") =>
          /\ ~e_values.isNone /\ ~e_status.isNone
          /\ DOMAIN e_values.d = Range(net[Len(net) - 1].tags)
          /\ DOMAIN e_status.d = Range(net[Len(net) - 1].tags)
          /\ \A t \in DOMAIN e_values.d :
                \E block \in Blocks(EchoValues) :
                    /\ e_status.d[t] = Entry(block).status
                    /\ e_values.d[t] = Entry(block).value

\* three registers were read: one block missing, one tag inactive, one full
\* block with a negative value
C17_Witness ==
    /\ Finished("read") /\ NoSentinel
    /\ Len(e_tags) = 3
    /\ outcome.kind = "return"
    /\ DOMAIN e_values.d = {"A1", "A100", "A101"}
    /\ e_status.d["A1"] = "E_NOTFOUND" /\ e_values.d["A1"] = RawNone
    /\ e_status.d["A100"] = "E_INACTIVE" /\ e_values.d["A100"] = RawNone
    /\ e_status.d["A101"] = "S_OK" /\ e_values.d["A101"] = RawStr(-15)
\* the raw values read for the descriptor name
RawsOf(name) == [k \in 1..Len(TagsOf(name)) |-> e_values.d[TagsOf(name)[k]]]

\* C18: in a read answered normally a descriptor whose decode fails does not
\* make read_values raise, and every other requested descriptor whose decode
\* succeeds is in the returned map with its decoded (and, for a descriptor
\* with translate set, translated) value.
C18_DecodeFailureIsolated ==
    (Finished("read") /\ NoSentinel /\ Len(rtags) >= 1) =>
        /\ outcome.kind = "return"
        /\ \A i \in 1..Len(rtags) :
              ~DecodeFails(rtags[i], RawsOf(rtags[i])) =>
                  /\ rtags[i] \in DOMAIN outcome.result
                  /\ outcome.result[rtags[i]].value =
                         Translated(rtags[i], Decode(rtags[i], RawsOf(rtags[i])))

\* HOLIDAY_ENABLED, listed between two numeric descriptors, was read as the
\* malformed boolean -15; both numeric descriptors are in the result
C18_Witness ==
    /\ Finished("read") /\ NoSentinel
    /\ rtags = <<"TEMPERATURE_OUTSIDE", "HOLIDAY_ENABLED", "ROOM_INFLUENCE">>
    /\ DecodeFails("HOLIDAY_ENABLED", RawsOf("HOLIDAY_ENABLED"))
    /\ outcome.kind = "return"
    /\ DOMAIN outcome.result = {"TEMPERATURE_OUTSIDE", "ROOM_INFLUENCE"}
    /\ outcome.result["ROOM_INFLUENCE"].value = FloatVal(-2, 5)

\* the tasks whose login request is in flight
LoginsInFlight == {t \in Tasks : tasks[t].pc = "login"}

\* C16: when concurrent calls each received a needs-login response, at no
\* point are two login requests in flight.
C16_ReloginSerialized ==
    Cardinality(LoginsInFlight) <= 1

\* C25 as stated: a read call over no descriptor sends no readTags request
\* and returns the empty result map.
C25_EmptyReadSendsNothing ==
    (Finished("read") /\ rtags = <<>>) =>
        /\ Events("readTags") = {}
        /\ outcome = Return(EmptyDict)

\* a response to readTags at position i of the log that holds no status line
\* for any of the registers its request asked for
NothingMatches(i) ==
    /\ net[i].ev = "resp" /\ net[i].status = "BODY"
    /\ \A t \in DOMAIN net[i].body : net[i].body[t].kind = "missing"

\* C21 as stated: a body that matches the status-line grammar nowhere ends
\* the call with the protocol parse error, for a login and equally for a read
\* or a write of at least one register.
C21_UnparsableBodyRaises ==
    /\ (Finished("login") /\ Responses("loginResp", "") # {}) =>
           outcome = Raise("InvalidResponseException")
    /\ (Finished("read") /\ Len(e_tags) >= 1
          /\ \E i \in 1..Len(net) : NothingMatches(i)) =>
           outcome = Raise("InvalidResponseException")
    /\ (Finished("write") /\ ~e_status.isNone
          /\ \A t \in DOMAIN e_status.d : e_status.d[t] = "E_NOTFOUND") =>
           outcome = Raise("InvalidResponseException")

\* the accumulators of a dict hold registers of the running call only
OnlyOf(d, tags) == d.isNone \/ DOMAIN d.d \subseteq Range(tags)

\* the accumulators, the unpacked register results and the result map of
\* task t hold registers and descriptors of its own call only
TaskOnlyRequested(t) ==
    /\ \A k \in 1..Len(tasks[t].stack) :
          /\ OnlyOf(tasks[t].stack[k].results, tasks[t].e_tags)
          /\ OnlyOf(tasks[t].stack[k].results_status, tasks[t].e_tags)
    /\ OnlyOf(tasks[t].e_values, tasks[t].e_tags)
    /\ OnlyOf(tasks[t].e_status, tasks[t].e_tags)
    /\ DOMAIN tasks[t].outcome.result \subseteq Range(tasks[t].rtags)

\* C29: whatever reads the bridge served before and whatever reads run on it
\* at the same time, the accumulators of every _read_tags invocation of a read
\* call and the register results the call unpacks hold only registers the
\* call itself asked for, and its result map only descriptors it was called
\* with.
C29_OnlyRequestedRegisters ==
    /\ call = "read" =>
          /\ \A k \in 1..Len(stack) :
                /\ OnlyOf(stack[k].results, e_tags)
                /\ OnlyOf(stack[k].results_status, e_tags)
          /\ OnlyOf(e_values, e_tags)
          /\ OnlyOf(e_status, e_tags)
          /\ DOMAIN outcome.result \subseteq Range(rtags)
    /\ \A t \in DOMAIN tasks : TaskOnlyRequested(t)

\* of two reads running at once for different registers, one has returned
\* entries for all of its registers and none else, while the other, one of
\* its chunks answered, holds that register in its accumulators and waits
\* for the answer to its next request
C29_Witness ==
    \E t, u \in DOMAIN tasks :
        /\ Range(tasks[t].e_tags) \cap Range(tasks[u].e_tags) = {}
        /\ tasks[t].pc = "done"
        /\ tasks[t].outcome.kind = "return"
        /\ DOMAIN tasks[t].outcome.result = Range(tasks[t].rtags)
        /\ ~tasks[t].e_values.isNone
        /\ DOMAIN tasks[t].e_values.d = Range(tasks[t].e_tags)
        /\ tasks[u].pc = "resp"
        /\ \E k \in 1..Len(tasks[u].stack) :
              /\ ~tasks[u].stack[k].results.isNone
              /\ DOMAIN tasks[u].stack[k].results.d # {}

\* the readTags request at position i of the log was answered needs-login
NeedsLoginAt(i) ==
    /\ i \in Events("readTags")
    /\ i < Len(net)
    /\ net[i + 1].ev = "resp" /\ net[i + 1].status = "E_NEED_LOGIN"

\* a chunk of a read of several chunks was answered needs-login, every
\* re-login of the call was answered and granted and no chunk met the
\* capacity sentinel
RetriedAfterRelogin ==
    /\ Finished("read")
    /\ Len(e_tags) > tagsPerRequest
    /\ \E i \in 1..Len(net) : NeedsLoginAt(i)
    /\ \A i \in Events("loginResp") : net[i].status = "S_OK"
    /\ Events("error") = {}
    /\ Responses("resp", "E_TOO_MANY_USERS") = {}

\* C30: a read of several chunks one of which was retried after a granted
\* re-login returns register results with one entry for each of the N
\* registers asked for, and no chunk that was answered with a body is
\* requested a second time.
C30_RetryKeepsEarlierChunks ==
    RetriedAfterRelogin =>
        /\ outcome.kind = "return"
        /\ ~e_values.isNone /\ ~e_status.isNone
        /\ DOMAIN e_values.d = Range(e_tags)
        /\ DOMAIN e_status.d = Range(e_tags)
        /\ Cardinality(DOMAIN e_values.d) = Len(e_tags)
        /\ \A i \in Events("readTags") :
              (net[i + 1].ev = "resp" /\ net[i + 1].status = "BODY") =>
                  \A j \in Events("readTags") : j > i => net[j].tags # net[i].tags

\* the second of two chunks was answered needs-login and retried
C30_Witness ==
    /\ RetriedAfterRelogin
    /\ tagsPerRequest = 1 /\ Len(e_tags) = 2
    /\ ~NeedsLoginAt(1)
    /\ NeedsLoginAt(3)
    /\ outcome.kind = "return"

\* the echo check of the pair at position i failed: a register of the
\* response was not S_OK, or the decoded echo differs from the value
PairFailed(i) ==
    \/ ~AllOk(e_status.d)
    \/ PyStr(Echo(wpairs[i].tag)) # PyStr(wpairs[i].value)

\* C28 as stated: when the echo check of a pair fails, the descriptor of the
\* pair is absent from the map write_values returns.
C28_FailedPairAbsent ==
    (Finished("write") /\ outcome.kind = "return" /\ Len(wpairs) >= 1
       /\ ~e_values.isNone /\ PairFailed(Len(wpairs))) =>
        wpairs[Len(wpairs)].tag \notin DOMAIN outcome.result

\* C28 amended: the step that takes the response for a pair stores the entry
\* (decoded echo, status S_OK) of the descriptor when every echoed register is
\* S_OK and the echo equals the value as strings, and leaves the result dict
\* as it is otherwise: an entry an earlier pair stored is kept.
C28_EntryPerCheckedPair ==
    [][(op = "write" /\ wpc = "resp" /\ net' = Append(net, Resp("BODY"))) =>
          LET name == wpairs[wi].tag
              echo == DecodeDefault(
                          [k \in 1..Len(TagsOf(name)) |-> e_values'.d[TagsOf(name)[k]]])
          IN IF AllOk(e_status'.d) /\ PyStr(echo) = PyStr(wpairs[wi].value)
             THEN wresult' = DictSet(wresult, name, [value |-> echo, status |-> "S_OK"])
             ELSE wresult' = wresult]_vars

\* the same descriptor was written twice in one call: the first echo
\* matched, the second did not, and the entry of the first is returned
C28_Witness ==
    /\ Finished("write") /\ outcome.kind = "return"
    /\ Len(wpairs) = 2 /\ wpairs[1].tag = wpairs[2].tag
    /\ ~e_values.isNone /\ PairFailed(2)
    /\ wpairs[2].tag \in DOMAIN outcome.result

\* C23: the chunk size is min(requested, 75), and 10 when the bridge was
\* constructed without one; no step changes it; it is at most 75 in every
\* state and no readTags request carries more than 75 tags, nor more than
\* the chunk size.
C23_ChunkSizeClamped ==
    /\ [](/\ tagsPerRequest = Min(requestedSize, ProtocolMaxTags)
          /\ tagsPerRequest <= ProtocolMaxTags
          /\ \A i \in Events("readTags") :
                /\ Len(net[i].tags) <= ProtocolMaxTags
                /\ Len(net[i].tags) <= Max(tagsPerRequest, 0))
    /\ [][tagsPerRequest' = tagsPerRequest]_vars

\* a bridge constructed with 76 works with 75 and has served a read
C23_Witness ==
    /\ requestedSize = ProtocolMaxTags + 1
    /\ tagsPerRequest = ProtocolMaxTags
    /\ Finished("read") /\ Len(e_tags) = 2
    /\ outcome.kind = "return"

\* the returning chunk call leaves the remaining list of its caller shorter
LoopShrinks ==
    (/\ op = "read" /\ op' = "read"
     /\ Len(stack) >= 2 /\ Len(stack') = Len(stack) - 1
     /\ stack[Len(stack) - 1].pc = "chunk") =>
        Len(stack'[Len(stack')].tags) < Len(stack[Len(stack) - 1].tags)

\* C27 as stated: for every chunk size, each iteration of the chunk loop
\* leaves the remaining list strictly shorter, and a read of at least one
\* register that the device answers normally returns in the end.
C27_ChunkLoopTerminates ==
    /\ [][LoopShrinks]_vars
    /\ (op = "read" /\ e_tags # <<>>) ~> (Finished("read") /\ outcome.kind = "return")

\* C22: the status of every Result read_values returns is the status the
\* device reported for the first register of the descriptor, whatever the
\* statuses of its other registers; so is the status of the Result that
\* write_value returns.
C22_StatusOfFirstRegister ==
    /\ (Finished("read") /\ outcome.kind = "return") =>
           \A name \in DOMAIN outcome.result :
               outcome.result[name].status = e_status.d[TagsOf(name)[1]]
    /\ (Finished("write") /\ outcome.kind = "return" /\ Len(wpairs) = 1) =>
           \A name \in DOMAIN outcome.result :
               outcome.result[name].status = e_status.d[TagsOf(name)[1]]

\* VERSION_CONTROLLER was read with S_OK for I1 and E_ACCESS for I2: the
\* status of its Result is S_OK
C22_Witness ==
    /\ Finished("read")
    /\ "VERSION_CONTROLLER" \in DOMAIN outcome.result
    /\ e_status.d["I1"] = "S_OK"
    /\ e_status.d["I2"] = "E_ACCESS"
    /\ outcome.result["VERSION_CONTROLLER"].status = "S_OK"

\* how often register code t is listed in the sequence of codes
Occurrences(codes, t) == Cardinality({k \in 1..Len(codes) : codes[k] = t})

\* the positions of the log with the response bodies that hold register t
BodiesWith(t) == {i \in Responses("resp", "BODY") : t \in DOMAIN net[i].body}

\* C24: in a read that meets no sentinel each distinct register code of the
\* requested descriptors is listed exactly once over all readTags requests,
\* also when descriptors share a register, and each single-bit descriptor on
\* a register is decoded from the one value fetched for it.
C24_SharedRegisterFetchedOnce ==
    (Finished("read") /\ NoSentinel /\ rtags # <<>>) =>
        LET codes == Flatten(RequestedTags(net)) IN
        /\ Range(codes) = FlatTags(rtags)
        /\ \A t \in FlatTags(rtags) :
              /\ Occurrences(codes, t) = 1
              /\ Cardinality(BodiesWith(t)) = 1
        /\ \A i \in 1..Len(rtags) : \A j \in BodiesWith(TagsOf(rtags[i])[1]) :
              LET block == net[j].body[TagsOf(rtags[i])[1]] IN
              (BitOf(rtags[i]) >= 0 /\ block.kind = "full") =>
                  /\ rtags[i] \in DOMAIN outcome.result
                  /\ outcome.result[rtags[i]].value =
                         BoolVal(BitSet(block.n, BitOf(rtags[i])))

\* both bit descriptors of I51 were read: one request of one tag, the value
\* 2 decoded as source pump off and heating pump on
C24_Witness ==
    /\ Finished("read") /\ NoSentinel
    /\ rtags = <<"STATE_SOURCEPUMP", "STATE_HEATINGPUMP">>
    /\ RequestedTags(net) = <<(<<"I51">>)>>
    /\ e_values.d["I51"] = RawStr(2)
    /\ outcome.result["STATE_SOURCEPUMP"].value = BoolVal(FALSE)
    /\ outcome.result["STATE_HEATINGPUMP"].value = BoolVal(TRUE)

\* the labels of the positions of bits whose bit is set in n, from position
\* k on, in the order of bits
RECURSIVE SetLabels(_, _, _, _)
SetLabels(n, bits, labels, k) ==
    IF k > Len(bits) THEN <<>>
    ELSE (IF BitSet(n, bits[k]) THEN <<labels[k]>> ELSE <<>>)
         \o SetLabels(n, bits, labels, k + 1)

\* ", ".join(labels)
RECURSIVE Joined(_)
Joined(labels) ==
    IF labels = <<>> THEN <<>>
    ELSE IF Len(labels) = 1 THEN labels[1]
         ELSE labels[1] \o <<",", " ">> \o Joined(Tail(labels))

\* C26: ALARM_BITS (translate set, label table for I52) read with a value for
\* I52 is returned as the labels at the positions of the set bits, in
\* bit-list order, joined with ", " with no separator before or after; as the
\* empty string when no bit is set.
C26_TranslatedLabels ==
    (Finished("read") /\ NoSentinel
       /\ \E i \in 1..Len(rtags) : rtags[i] = "ALARM_BITS"
       /\ ~e_values.d["I52"].isNone) =>
        /\ "ALARM_BITS" \in DOMAIN outcome.result
        /\ outcome.result["ALARM_BITS"].value =
               StrVal(Joined(SetLabels(e_values.d["I52"].n, BitsOf("ALARM_BITS"),
                                       LangMap["I52"], 1)))

\* I52 was read as 5: bits 0 and 2 are set, the value is "L0, L2"
C26_Witness ==
    /\ Finished("read") /\ NoSentinel
    /\ "ALARM_BITS" \in DOMAIN outcome.result
    /\ e_values.d["I52"] = RawStr(5)
    /\ outcome.result["ALARM_BITS"].value = StrVal(<<"L", "0", ",", " ", "L", "2">>)

====
